---- MODULE Spec2Model ----
(***************************************************************************)
(* Job-application tracker: the server actions of utils/actions.ts (job    *)
(* CRUD, list, stats, charts, download) over the Prisma job table, with    *)
(* the Zod validation schema and sanitizeJobInput of utils/types.          *)
(*                                                                         *)
(* JavaScript strings are sequences of one-character strings, so that      *)
(* length, trim and the pattern checks are computed, not assumed.  The     *)
(* values null and undefined are the sequences Null and Undefined, whose   *)
(* single element is longer than one character and so is no string.        *)
(***************************************************************************)
EXTENDS Integers, Sequences, FiniteSets, TLC

(*************************** bounds of the model ***************************)
\* number of job ids the store hands out in one behaviour (Spec)
MaxJobs == 2
\* number of job ids the store hands out in one behaviour (SpecValidation)
MaxJobsV == 1
\* the clock runs over 0..MaxTime
MaxTime == 1

(******************************* JS values ********************************)
Null == <<"null">>
Undefined == <<"undefined">>

\* String.prototype.trim's white space (the part of it the inputs use)
WhiteSpace == {" ", "\t"}

\* a string of n copies of the character c
Rep(c, n) == [i \in 1..n |-> c]

IsString(v) == v # Null /\ v # Undefined

RECURSIVE TrimStart(_)
TrimStart(s) ==
  IF s # <<>> /\ Head(s) \in WhiteSpace THEN TrimStart(Tail(s)) ELSE s

RECURSIVE TrimEnd(_)
TrimEnd(s) ==
  IF s # <<>> /\ s[Len(s)] \in WhiteSpace
  THEN TrimEnd(SubSeq(s, 1, Len(s) - 1))
  ELSE s

\* String.prototype.trim
Trim(s) == TrimEnd(TrimStart(s))

\* JavaScript truthiness of a string | null | undefined value
Truthy(v) == v # <<>> /\ v # Null /\ v # Undefined

\* the object property read o[k]: undefined when the key is missing
Get(o, k) == IF k \in DOMAIN o THEN o[k] ELSE Undefined

(************************ enumerations of the schema ***********************)
\* the enumeration of an earlier version of the schema
JobStatusLegacy == {"pending", "interview", "declined"}

JobStatus == {"applied", "screening", "interview", "offer", "rejected"}
JobMode == {"full-time", "part-time", "contract", "remote", "hybrid"}

(***************************** Zod string checks ***************************)
Letters == {"a", "b", "c", "h", "x", "A", "B"}
HexDigits == {"0", "1", "2", "3", "4", "5", "6", "7", "8", "9",
              "a", "b", "c", "d", "e", "f", "A", "B", "C", "D", "E", "F"}

\* z.string().url(): new URL(s) does not throw.  new URL strips leading and
\* trailing white space and then needs a scheme: a letter, then letters, up
\* to a colon.
IsUrl(s) ==
  LET t == Trim(s) IN
    \E i \in 2..Len(t) :
      /\ t[i] = ":"
      /\ \A j \in 1..(i - 1) : t[j] \in Letters

\* z.string().uuid(): 8-4-4-4-12 hexadecimal digits separated by dashes
IsUuid(s) ==
  /\ Len(s) = 36
  /\ \A i \in 1..36 :
       IF i \in {9, 14, 19, 24} THEN s[i] = "-" ELSE s[i] \in HexDigits

\* position / company / location: z.string().min(2).max(200).trim().
\* Zod runs the checks of a string in the order they were declared: the two
\* length checks see the raw input, the trim comes last and rewrites the value.
ParseRequiredString(data, k) ==
  LET v == Get(data, k) IN
    IF ~IsString(v) THEN [ok |-> FALSE, value |-> Undefined]
    ELSE [ok |-> Len(v) >= 2 /\ Len(v) <= 200, value |-> Trim(v)]

\* salaryRange / notes: z.string().max(n).trim().optional().or(z.literal('')).
\* The union answers with its first member that accepts the value.
ParseOptionalText(data, k, max) ==
  LET v == Get(data, k) IN
    IF v = Undefined THEN [ok |-> TRUE, value |-> Undefined]
    ELSE IF ~IsString(v) THEN [ok |-> FALSE, value |-> Undefined]
    ELSE IF Len(v) <= max THEN [ok |-> TRUE, value |-> Trim(v)]
    ELSE IF v = <<>> THEN [ok |-> TRUE, value |-> <<>>]
    ELSE [ok |-> FALSE, value |-> Undefined]

\* jobUrl / website / coverLetterUrl:
\* z.string().url().max(500).optional().or(z.literal(''))
ParseOptionalUrl(data, k) ==
  LET v == Get(data, k) IN
    IF v = Undefined THEN [ok |-> TRUE, value |-> Undefined]
    ELSE IF ~IsString(v) THEN [ok |-> FALSE, value |-> Undefined]
    ELSE IF IsUrl(v) /\ Len(v) <= 500 THEN [ok |-> TRUE, value |-> v]
    ELSE IF v = <<>> THEN [ok |-> TRUE, value |-> <<>>]
    ELSE [ok |-> FALSE, value |-> Undefined]

\* resumeId: z.string().uuid().optional().or(z.literal(''))
ParseOptionalUuid(data, k) ==
  LET v == Get(data, k) IN
    IF v = Undefined THEN [ok |-> TRUE, value |-> Undefined]
    ELSE IF ~IsString(v) THEN [ok |-> FALSE, value |-> Undefined]
    ELSE IF IsUuid(v) THEN [ok |-> TRUE, value |-> v]
    ELSE IF v = <<>> THEN [ok |-> TRUE, value |-> <<>>]
    ELSE [ok |-> FALSE, value |-> Undefined]

\* status: z.nativeEnum(JobStatus)
ParseStatus(data) == "status" \in DOMAIN data /\ data["status"] \in JobStatus

\* mode: z.nativeEnum(JobMode)
ParseMode(data) == "mode" \in DOMAIN data /\ data["mode"] \in JobMode

RequiredText == {"position", "company", "location"}
OptionalFields ==
  {"salaryRange", "jobUrl", "website", "coverLetterUrl", "resumeId", "notes"}
SchemaKeys == RequiredText \cup {"status", "mode"} \cup OptionalFields

\* the parse of one key of the schema
ParseField(data, k) ==
  CASE k \in RequiredText -> ParseRequiredString(data, k)
    [] k = "status" ->
         [ok |-> ParseStatus(data),
          value |-> IF ParseStatus(data) THEN data["status"] ELSE "invalid"]
    [] k = "mode" ->
         [ok |-> ParseMode(data),
          value |-> IF ParseMode(data) THEN data["mode"] ELSE "invalid"]
    [] k = "salaryRange" -> ParseOptionalText(data, k, 100)
    [] k = "notes" -> ParseOptionalText(data, k, 5000)
    [] k = "resumeId" -> ParseOptionalUuid(data, k)
    [] OTHER -> ParseOptionalUrl(data, k)

\* createAndEditJobSchema.parse(values): z.object keeps the keys of the schema
\* only (unknown keys are stripped) and throws when a key has an issue; issues
\* names the keys that have one.
createAndEditJobSchema(values) ==
  LET parsed == [k \in SchemaKeys |-> ParseField(values, k)] IN
    [ok |-> \A k \in SchemaKeys : parsed[k].ok,
     issues |-> {k \in SchemaKeys : ~parsed[k].ok},
     data |-> [k \in SchemaKeys |-> parsed[k].value]]

\* input.f ?? null: only undefined and null become null
OrNullish(v) == IF v = Undefined \/ v = Null THEN Null ELSE v

\* input.f || null
OrNull(v) == IF Truthy(v) THEN v ELSE Null

\* sanitizeJobInput(input): the required keys as they are, every optional key
\* through || null; no other key is copied.
sanitizeJobInput(input) ==
  [k \in SchemaKeys |->
     IF k \in OptionalFields THEN OrNull(input[k]) ELSE input[k]]

(********************************* state ***********************************)
VARIABLES
  store,    \* the job table: id -> row, over the ids that exist
  nextId,   \* the next id the table hands out; ids are never used twice
  now,      \* the clock, in half months
  lastOp    \* the last server action: its name, caller, arguments and result

vars == <<store, nextId, now, lastOp>>

Owners == {"A", "B"}
\* auth() found no session: userId is null
NoUser == "none"
Callers == Owners \cup {NoUser}

NullDate == -1

\* { ...a, ...b }: the keys of b win
Spread(a, b) == b @@ a

(**************************** results of actions ***************************)
Redirect(to) == [kind |-> "redirect", to |-> to]
ReturnNull == [kind |-> "null"]
ReturnJob(job) == [kind |-> "job", job |-> job]

\* the action has ended: what it was called with, what the caller gets and how
\* many Prisma calls it made
Done(op, caller, args, result, calls) ==
  lastOp' = [op |-> op, caller |-> caller, args |-> args,
             result |-> result, dbCalls |-> calls]

(***************************** the job table *******************************)
\* the columns Prisma fills in on create when data does not give them
JobDefaults ==
  [id |-> nextId, appliedDate |-> now, lastContact |-> NullDate,
   nextFollowUp |-> NullDate, createdAt |-> now, updatedAt |-> now]

\* the row prisma.job.create({ data }) inserts
CreatedRow(data) == data @@ JobDefaults

\* a where clause that looks at the id alone
OwnedByAnyone(id, userId) == id \in DOMAIN store

\* the where clause { id, clerkId: userId } of findUnique, update and delete
OwnedBy(id, userId) == id \in DOMAIN store /\ store[id]["clerkId"] = userId

\* an update that fills in only what the row does not hold yet
UpdatedRowKeeping(id, data) == ("updatedAt" :> now) @@ store[id] @@ data

\* the row prisma.job.update({ where, data }) leaves
UpdatedRow(id, data) == data @@ ("updatedAt" :> now) @@ store[id]

(******************************* actions ***********************************)
\* authenticateAndRedirect(): redirect("/") throws before the action's try
Unauthenticated(op, userId, args) ==
  /\ userId = NoUser
  /\ Done(op, userId, args, Redirect("/"), 0)
  /\ UNCHANGED <<store, nextId, now>>

\* data that spreads the request body last: { clerkId, ...sanitized, ...values }
CreateDataFromBody(userId, values) ==
  Spread(Spread([clerkId |-> userId],
                sanitizeJobInput(createAndEditJobSchema(values).data)),
         values)

\* data that spreads the request body over the sanitized values
UpdateDataFromBody(values) ==
  Spread(sanitizeJobInput(createAndEditJobSchema(values).data), values)

\* data: { ...sanitizedData, clerkId: userId } of createJobAction, from the
\* parsed values
CreateData(userId, values) ==
  Spread(sanitizeJobInput(createAndEditJobSchema(values).data),
         [clerkId |-> userId])

\* data: sanitizedData of updateJobAction, from the parsed values
UpdateData(values) == sanitizeJobInput(createAndEditJobSchema(values).data)

createJobAction(userId, values, dbOk) ==
  \/ Unauthenticated("create", userId, [values |-> values])
  \/ /\ userId # NoUser
     /\ LET parsed == createAndEditJobSchema(values)
            row == CreatedRow(CreateData(userId, values))
        IN  IF ~parsed.ok
            THEN /\ Done("create", userId, [values |-> values], ReturnNull, 0)
                 /\ UNCHANGED <<store, nextId>>
            ELSE IF ~dbOk \/ row["id"] \in DOMAIN store
            THEN /\ Done("create", userId, [values |-> values], ReturnNull, 1)
                 /\ UNCHANGED <<store, nextId>>
            ELSE /\ store' = (row["id"] :> row) @@ store
                 /\ nextId' = nextId + 1
                 /\ Done("create", userId, [values |-> values], ReturnJob(row), 1)
     /\ UNCHANGED now

\* a delete that does not call authenticateAndRedirect
deleteWithoutAuth(userId, id, dbOk) ==
  /\ IF dbOk /\ OwnedBy(id, userId)
     THEN /\ store' = [i \in DOMAIN store \ {id} |-> store[i]]
          /\ Done("delete", userId, [id |-> id], ReturnJob(store[id]), 1)
     ELSE /\ store' = store
          /\ Done("delete", userId, [id |-> id], ReturnNull, 1)
  /\ UNCHANGED <<nextId, now>>

deleteJobAction(userId, id, dbOk) ==
  \/ Unauthenticated("delete", userId, [id |-> id])
  \/ /\ userId # NoUser
     /\ IF dbOk /\ OwnedBy(id, userId)
        THEN /\ store' = [i \in DOMAIN store \ {id} |-> store[i]]
             /\ Done("delete", userId, [id |-> id], ReturnJob(store[id]), 1)
        ELSE /\ store' = store
             /\ Done("delete", userId, [id |-> id], ReturnNull, 1)
     /\ UNCHANGED <<nextId, now>>

\* a findUnique that selects every column but the notes
GetOneWithoutNotes(userId, id) ==
  IF OwnedBy(id, userId) THEN ReturnJob([store[id] EXCEPT !["notes"] = Null])
  ELSE Redirect("/jobs")

\* the redirect("/jobs") of a missing row is thrown inside the try, caught,
\* logged and thrown again by the catch
GetOneResult(userId, id) ==
  IF OwnedBy(id, userId) THEN ReturnJob(store[id]) ELSE Redirect("/jobs")

getSingleJobAction(userId, id, dbOk) ==
  \/ Unauthenticated("getOne", userId, [id |-> id])
  \/ /\ userId # NoUser
     /\ IF dbOk
        THEN Done("getOne", userId, [id |-> id], GetOneResult(userId, id), 1)
        ELSE Done("getOne", userId, [id |-> id], Redirect("/jobs"), 1)
     /\ UNCHANGED <<store, nextId, now>>

updateJobAction(userId, id, values, dbOk) ==
  \/ Unauthenticated("update", userId, [id |-> id, values |-> values])
  \/ /\ userId # NoUser
     /\ LET parsed == createAndEditJobSchema(values)
            row == UpdatedRow(id, UpdateData(values))
            args == [id |-> id, values |-> values]
        IN  IF ~parsed.ok
            THEN /\ Done("update", userId, args, ReturnNull, 0)
                 /\ store' = store
            ELSE IF dbOk /\ OwnedBy(id, userId)
            THEN /\ store' = [store EXCEPT ![id] = row]
                 /\ Done("update", userId, args, ReturnJob(row), 1)
            ELSE /\ store' = store
                 /\ Done("update", userId, args, ReturnNull, 1)
     /\ UNCHANGED <<nextId, now>>

\* time passes between requests
Tick ==
  /\ now < MaxTime
  /\ now' = now + 1
  /\ UNCHANGED <<store, nextId, lastOp>>

(****************************** list queries *******************************)
\* the lower-case form of a character, as the case-insensitive match sees it
ToLower(c) == CASE c = "A" -> "a" [] c = "B" -> "b" [] OTHER -> c

LowerCase(s) == [i \in 1..Len(s) |-> ToLower(s[i])]

\* { contains: sub, mode: 'insensitive' }
ContainsInsensitive(s, sub) ==
  \E i \in 0..(Len(s) - Len(sub)) :
    LowerCase(SubSeq(s, i + 1, i + Len(sub))) = LowerCase(sub)

\* a whereClause that starts empty instead of with the caller's clerkId
MatchesAnyOwner(row, userId, params) ==
  /\ Truthy(Get(params, "search")) =>
       \/ ContainsInsensitive(row["position"], params["search"])
       \/ ContainsInsensitive(row["company"], params["search"])
  /\ ("jobStatus" \in DOMAIN params /\ params["jobStatus"] \notin {"", "all"}) =>
       row["status"] = params["jobStatus"]

\* a whereClause whose search looks at the position alone
MatchesPositionOnly(row, userId, params) ==
  /\ row["clerkId"] = userId
  /\ Truthy(Get(params, "search")) =>
       ContainsInsensitive(row["position"], params["search"])
  /\ ("jobStatus" \in DOMAIN params /\ params["jobStatus"] \notin {"", "all"}) =>
       row["status"] = params["jobStatus"]

\* the whereClause getAllJobsAction builds: the caller's rows, narrowed by
\* search when it is truthy and by jobStatus when it is truthy and not "all"
Matches(row, userId, params) ==
  /\ row["clerkId"] = userId
  /\ Truthy(Get(params, "search")) =>
       \/ ContainsInsensitive(row["position"], params["search"])
       \/ ContainsInsensitive(row["company"], params["search"])
  /\ ("jobStatus" \in DOMAIN params /\ params["jobStatus"] \notin {"", "all"}) =>
       row["status"] = params["jobStatus"]

MatchingIds(userId, params) ==
  {i \in DOMAIN store : Matches(store[i], userId, params)}

\* the orders a query may return the rows of ids in: every order that is
\* descending (desc) or ascending in appliedDate; the database breaks ties
\* as it likes
RECURSIVE Orders(_, _)
Orders(ids, desc) ==
  IF ids = {} THEN {<<>>}
  ELSE LET first ==
             {i \in ids : \A j \in ids :
                IF desc
                THEN store[i]["appliedDate"] >= store[j]["appliedDate"]
                ELSE store[i]["appliedDate"] <= store[j]["appliedDate"]}
       IN  UNION {{<<i>> \o o : o \in Orders(ids \ {i}, desc)} : i \in first}

Rows(order) == [i \in DOMAIN order |-> store[order[i]]]

Min(a, b) == IF a < b THEN a ELSE b

\* take without skip
PageWithoutSkip(rows, skip, take) == SubSeq(rows, 1, Min(take, Len(rows)))

\* skip and take of findMany, applied to the ordered rows
Page(rows, skip, take) == SubSeq(rows, skip + 1, Min(skip + take, Len(rows)))

\* Math.floor(count / limit)
FloorDiv(count, limit) == count \div limit

\* Math.ceil(count / limit) for limit >= 1
CeilDiv(count, limit) == (count + limit - 1) \div limit

\* the defaults of the destructured parameters
PageOf(params) == IF "page" \in DOMAIN params THEN params["page"] ELSE 1
LimitOf(params) == IF "limit" \in DOMAIN params THEN params["limit"] ELSE 10

\* what getAllJobsAction returns when findMany answers in the given order
ListResult(userId, params, order) ==
  LET page == PageOf(params)
      limit == LimitOf(params)
      count == Cardinality(MatchingIds(userId, params))
  IN  [kind |-> "list",
       jobs |-> Page(Rows(order), (page - 1) * limit, limit),
       count |-> count, page |-> page, totalPages |-> CeilDiv(count, limit)]

\* a catch that lets the storage error go on to the caller
FailedListThrown == [kind |-> "error"]

\* the catch of getAllJobsAction: { jobs: [], count: 0, page: 1, totalPages: 0 }
FailedList ==
  [kind |-> "list", jobs |-> <<>>, count |-> 0, page |-> 1, totalPages |-> 0]

getAllJobsAction(userId, params, dbOk) ==
  \/ Unauthenticated("list", userId, params)
  \/ /\ userId # NoUser
     /\ IF dbOk
        THEN \E order \in Orders(MatchingIds(userId, params), TRUE) :
               Done("list", userId, params,
                    ListResult(userId, params, order), 2)
        ELSE Done("list", userId, params, FailedList, 1)
     /\ UNCHANGED <<store, nextId, now>>

\* where: { clerkId: userId }
IdsOf(userId) == {i \in DOMAIN store : store[i]["clerkId"] = userId}

getAllJobsForDownloadAction(userId, dbOk) ==
  \/ Unauthenticated("download", userId, <<>>)
  \/ /\ userId # NoUser
     /\ IF dbOk
        THEN \E order \in Orders(IdsOf(userId), TRUE) :
               Done("download", userId, <<>>,
                    [kind |-> "jobs", jobs |-> Rows(order)], 1)
        ELSE Done("download", userId, <<>>, [kind |-> "jobs", jobs |-> <<>>], 1)
     /\ UNCHANGED <<store, nextId, now>>

(******************************* aggregates ********************************)
\* the reduced groupBy without the zero-filled defaults
StatsOfPresent(userId) ==
  LET mine == IdsOf(userId)
  IN  [st \in {store[i]["status"] : i \in mine} |->
         Cardinality({i \in mine : store[i]["status"] = st})]

\* a groupBy whose where clause has no clerkId
StatsOfEveryone(userId) ==
  LET present == {store[i]["status"] : i \in DOMAIN store}
      statsObject ==
        [st \in present |->
           Cardinality({i \in DOMAIN store : store[i]["status"] = st})]
  IN  Spread([st \in JobStatus |-> 0], statsObject)

\* groupBy status with _count, reduced into an object and spread over the
\* zero-filled defaults
StatsOf(userId) ==
  LET mine == IdsOf(userId)
      present == {store[i]["status"] : i \in mine}
      statsObject ==
        [st \in present |->
           Cardinality({i \in mine : store[i]["status"] = st})]
  IN  Spread([st \in JobStatus |-> 0], statsObject)

getStatsAction(userId, dbOk) ==
  \/ Unauthenticated("stats", userId, <<>>)
  \/ /\ userId # NoUser
     /\ IF dbOk
        THEN Done("stats", userId, <<>>,
                  [kind |-> "stats", stats |-> StatsOf(userId)], 1)
        ELSE Done("stats", userId, <<>>, Redirect("/jobs"), 1)
     /\ UNCHANGED <<store, nextId, now>>

\* dayjs(date).format("MMM YY"): the month of the year and the two-digit year
\* of a time in half months
MonthLabel(t) == [month |-> (t \div 2) % 12, year |-> (t \div 24) % 100]

\* the reduce of getChartsDataAction: a row whose label is in acc adds one to
\* that entry, another row appends { date, count: 1 }
RECURSIVE ApplicationsPerMonth(_, _)
ApplicationsPerMonth(rows, acc) ==
  IF rows = <<>> THEN acc
  ELSE LET date == MonthLabel(Head(rows)["appliedDate"])
           found == {i \in DOMAIN acc : acc[i].date = date}
       IN  IF found # {}
           THEN LET i == CHOOSE k \in found : \A m \in found : k <= m
                IN  ApplicationsPerMonth(Tail(rows),
                      [acc EXCEPT ![i].count = acc[i].count + 1])
           ELSE ApplicationsPerMonth(Tail(rows),
                  Append(acc, [date |-> date, count |-> 1]))

\* dayjs().subtract(6, "month"), in half months
SixMonthsAgo == now - 12

\* where: { clerkId: userId, appliedDate: { gt: sixMonthsAgo } }
RecentIdsAfter(userId) ==
  {i \in IdsOf(userId) : store[i]["appliedDate"] > SixMonthsAgo}

\* where: { clerkId: userId, appliedDate: { gte: sixMonthsAgo } }
RecentIdsOf(userId) ==
  {i \in IdsOf(userId) : store[i]["appliedDate"] >= SixMonthsAgo}

\* a trend with one point for every row
ChartsResultPerRow(order) ==
  [kind |-> "charts",
   points |-> [i \in DOMAIN order |->
                 [date |-> MonthLabel(store[order[i]]["appliedDate"]),
                  count |-> 1]]]

\* what getChartsDataAction returns when findMany answers in the given order
ChartsResult(order) ==
  [kind |-> "charts", points |-> ApplicationsPerMonth(Rows(order), <<>>)]

getChartsDataAction(userId, dbOk) ==
  \/ Unauthenticated("charts", userId, <<>>)
  \/ /\ userId # NoUser
     /\ IF dbOk
        THEN \E order \in Orders(RecentIdsOf(userId), FALSE) :
               Done("charts", userId, <<>>, ChartsResult(order), 1)
        ELSE Done("charts", userId, <<>>, Redirect("/jobs"), 1)
     /\ UNCHANGED <<store, nextId, now>>

(******************************* API routes ********************************)
\* the action threw: redirect() throws and the try of the route catches it
Thrown(result) == result.kind = "redirect"

\* NextResponse.json({ error }, { status })
ErrorResponse(status, error) == [status |-> status, body |-> [error |-> error]]

\* NextResponse.json(value), and with { status: 201 }
JsonResponse(status, value) == [status |-> status, body |-> value]

\* GET /api/jobs
JobsGET(result) ==
  IF Thrown(result) THEN ErrorResponse(500, "Failed to fetch jobs")
  ELSE JsonResponse(200, result)

\* POST /api/jobs
JobsPOST(result) ==
  IF Thrown(result) THEN ErrorResponse(500, "Failed to create job")
  ELSE IF result = ReturnNull THEN ErrorResponse(400, "Failed to create job")
  ELSE JsonResponse(201, result.job)

\* GET /api/jobs/download
DownloadGET(result) ==
  IF Thrown(result) THEN ErrorResponse(500, "Failed to fetch jobs for download")
  ELSE JsonResponse(200, result.jobs)

\* GET /api/stats
StatsGET(result) ==
  IF Thrown(result) THEN ErrorResponse(500, "Failed to fetch statistics")
  ELSE JsonResponse(200, result.stats)

\* GET /api/charts
ChartsGET(result) ==
  IF Thrown(result) THEN ErrorResponse(500, "Failed to fetch chart data")
  ELSE JsonResponse(200, result.points)

\* GET /api/jobs/[id]
JobGET(result) ==
  IF Thrown(result) THEN ErrorResponse(500, "Failed to fetch job")
  ELSE IF result = ReturnNull THEN ErrorResponse(404, "Job not found")
  ELSE JsonResponse(200, result.job)

\* PUT /api/jobs/[id]
JobPUT(result) ==
  IF Thrown(result) THEN ErrorResponse(500, "Failed to update job")
  ELSE IF result = ReturnNull THEN ErrorResponse(400, "Failed to update job")
  ELSE JsonResponse(200, result.job)

\* DELETE /api/jobs/[id]
JobDELETE(result) ==
  IF Thrown(result) THEN ErrorResponse(500, "Failed to delete job")
  ELSE IF result = ReturnNull THEN ErrorResponse(400, "Failed to delete job")
  ELSE JsonResponse(200, result.job)

\* what the route of an action answers when the action ends with result
Response(op, result) ==
  CASE op = "create" -> JobsPOST(result)
    [] op = "update" -> JobPUT(result)
    [] op = "delete" -> JobDELETE(result)
    [] op = "getOne" -> JobGET(result)
    [] op = "list" -> JobsGET(result)
    [] op = "download" -> DownloadGET(result)
    [] op = "stats" -> StatsGET(result)
    [] op = "charts" -> ChartsGET(result)

(********************************* export **********************************)
\* dayjs(t).format("YYYY-MM") of a time in half months
MonthKey(t) == [year |-> t \div 24, month |-> (t \div 2) % 12]

\* let lastMonthKey = ""
NoMonthKey == [year |-> -1, month |-> -1]

\* dayjs(t).format("DD-MMM-YYYY"): the half of the month stands for the day
DateShown(t) == [day |-> t % 2, month |-> (t \div 2) % 12, year |-> t \div 24]

\* the Role column: "Full Time", "Part Time", and "Internship" for the rest
Role(mode) ==
  CASE mode = "full-time" -> "Full Time"
    [] mode = "part-time" -> "Part Time"
    [] OTHER -> "Internship"

\* status.charAt(0).toUpperCase() + status.slice(1)
Capitalized(status) ==
  CASE status = "applied" -> "Applied"
    [] status = "screening" -> "Screening"
    [] status = "interview" -> "Interview"
    [] status = "offer" -> "Offer"
    [] status = "rejected" -> "Rejected"
    [] status = "pending" -> "Pending"
    [] status = "declined" -> "Declined"
    [] OTHER -> status

\* jobs.filter((j) => j.status === status).length
CountStatus(jobs, status) ==
  Cardinality({i \in DOMAIN jobs : jobs[i]["status"] = status})

\* headingText: Total Applied, Declined, Interview, Pending and the time the
\* report was generated
HeadingText(jobs) ==
  [Total |-> Len(jobs),
   Declined |-> CountStatus(jobs, "declined"),
   Interview |-> CountStatus(jobs, "interview"),
   Pending |-> CountStatus(jobs, "pending"),
   Generated |-> DateShown(now)]

\* one step of an insertion that keeps equal keys in input order: job goes
\* behind every job created at the same time or later
RECURSIVE InsertByCreatedAt(_, _)
InsertByCreatedAt(sorted, job) ==
  IF sorted = <<>> THEN <<job>>
  ELSE IF Head(sorted)["createdAt"] >= job["createdAt"]
       THEN <<Head(sorted)>> \o InsertByCreatedAt(Tail(sorted), job)
       ELSE <<job>> \o sorted

RECURSIVE SortInto(_, _)
SortInto(sorted, jobs) ==
  IF jobs = <<>> THEN sorted
  ELSE SortInto(InsertByCreatedAt(sorted, Head(jobs)), Tail(jobs))

\* the rows in the order they came in
Unsorted(jobs) == jobs

\* [...jobs].sort((a, b) => b.createdAt - a.createdAt): a stable sort of a copy
SortedByCreatedAt(jobs) == SortInto(<<>>, jobs)

\* a gap before every row of another month key, the first row too
GapAlways(lastMonthKey, monthKey) == monthKey # lastMonthKey

\* if (lastMonthKey && monthKey !== lastMonthKey)
Gap(lastMonthKey, monthKey) ==
  lastMonthKey # NoMonthKey /\ monthKey # lastMonthKey

\* the cell of a text column: quoted in the CSV, as it is in the sheet
Cell(text, quoted) == IF quoted THEN <<"\"">> \o text \o <<"\"">> ELSE text

\* a body that gives a blank row a serial number of its own
AddJobNumberingGaps(acc, job, quoted) ==
  LET monthKey == MonthKey(job["createdAt"])
      gap == Gap(acc.lastMonthKey, monthKey)
      serial == IF gap THEN acc.serial + 1 ELSE acc.serial
  IN  [rows |-> (IF gap THEN Append(acc.rows, <<>>) ELSE acc.rows)
                  \o <<[no |-> serial,
                        date |-> DateShown(job["createdAt"]),
                        title |-> Cell(job["position"], quoted),
                        company |-> Cell(job["company"], quoted),
                        location |-> Cell(job["location"], quoted),
                        role |-> Role(job["mode"]),
                        status |-> Capitalized(job["status"])]>>,
       serial |-> serial + 1,
       lastMonthKey |-> monthKey]

\* the body of sorted.forEach: a blank row when the month changes, then the
\* data row of the job with the next serial number
AddJob(acc, job, quoted) ==
  LET monthKey == MonthKey(job["createdAt"])
      gap == Gap(acc.lastMonthKey, monthKey)
  IN  [rows |-> (IF gap THEN Append(acc.rows, <<>>) ELSE acc.rows)
                  \o <<[no |-> acc.serial,
                        date |-> DateShown(job["createdAt"]),
                        title |-> Cell(job["position"], quoted),
                        company |-> Cell(job["company"], quoted),
                        location |-> Cell(job["location"], quoted),
                        role |-> Role(job["mode"]),
                        status |-> Capitalized(job["status"])]>>,
       serial |-> acc.serial + 1,
       lastMonthKey |-> monthKey]

RECURSIVE ForEach(_, _, _)
ForEach(sorted, acc, quoted) ==
  IF sorted = <<>> THEN acc
  ELSE ForEach(Tail(sorted), AddJob(acc, Head(sorted), quoted), quoted)

\* the title, the heading, a blank row and the header row, then the data rows
\* with their gaps; jobs is the array as the call leaves it
Sheet(kind, jobs, quoted) ==
  [kind |-> kind,
   title |-> "Job Application History",
   heading |-> HeadingText(jobs),
   header |-> <<"No.", "Applied Date", "Job Title", "Company Name",
                "Job Location", "Role", "Status">>,
   rows |-> ForEach(SortedByCreatedAt(jobs),
                    [rows |-> <<>>, serial |-> 1, lastMonthKey |-> NoMonthKey],
                    quoted).rows,
   jobs |-> jobs]

downloadAsCSV(jobs) == Sheet("csv", jobs, TRUE)

downloadAsExcel(jobs) == Sheet("xlsx", jobs, FALSE)

\* handleDownloadCSV / handleDownloadExcel: the jobs of the download action
\* go to the formatter; a thrown redirect is caught and logged, no file
handleDownload(op, userId, dbOk) ==
  \/ Unauthenticated(op, userId, <<>>)
  \/ /\ userId # NoUser
     /\ \E order \in Orders(IdsOf(userId), TRUE) :
          LET jobs == IF dbOk THEN Rows(order) ELSE <<>>
          IN  Done(op, userId, <<>>,
                   IF op = "exportCSV" THEN downloadAsCSV(jobs)
                   ELSE downloadAsExcel(jobs), 1)
     /\ UNCHANGED <<store, nextId, now>>

handleDownloadCSV(userId, dbOk) == handleDownload("exportCSV", userId, dbOk)

handleDownloadExcel(userId, dbOk) == handleDownload("exportExcel", userId, dbOk)

(********************************* inputs **********************************)
\* o with key k set to v
With(o, k, v) == (k :> v) @@ o

Base ==
  [position |-> <<"a", "b">>, company |-> <<"A", "c">>,
   location |-> <<"x", "x">>, status |-> "applied", mode |-> "remote"]

SomeUrl == <<"h", ":", "/", "/", "x">>
SomeUuid ==
  Rep("0", 8) \o <<"-">> \o Rep("a", 4) \o <<"-">> \o Rep("4", 4) \o <<"-">>
    \o Rep("B", 4) \o <<"-">> \o Rep("f", 12)

\* Base with every optional key set to v
AllOptional(v) == [k \in OptionalFields |-> v] @@ Base

\* every optional key holding a value the schema accepts
Filled ==
  [salaryRange |-> <<"1">>, jobUrl |-> SomeUrl, website |-> SomeUrl,
   coverLetterUrl |-> SomeUrl, resumeId |-> SomeUuid, notes |-> <<"x">>]
    @@ [Base EXCEPT !.position = <<"B", "a">>, !.status = "offer"]

\* a body that carries ownership fields of its own
Foreign == [clerkId |-> "B", id |-> 1] @@ Base

\* the request bodies of Spec for create: valid ones, one with ownership
\* fields, an unknown status, empty optional fields
JobInputs ==
  {Base, Filled, AllOptional(<<>>), Foreign, [Base EXCEPT !.status = "pending"]}

\* the request bodies of Spec for update
UpdateInputs ==
  {Filled, AllOptional(<<>>), Foreign, [Base EXCEPT !.mode = "internship"]}

Ids == 1..MaxJobs

ListParams ==
  {<<>>,
   [search |-> <<"a">>, jobStatus |-> "all"],
   [search |-> <<>>, jobStatus |-> "offer", limit |-> 2],
   [search |-> <<"B">>, page |-> 2, limit |-> 1],
   [jobStatus |-> "", page |-> 1, limit |-> 1]}

(****************************** specification ******************************)
Init ==
  /\ store = <<>>
  /\ nextId = 1
  /\ now = 0
  /\ lastOp = [op |-> "none", caller |-> NoUser, args |-> <<>>,
               result |-> ReturnNull, dbCalls |-> 0]

\* the table hands out MaxJobs ids
Create(c, v, ok) == nextId <= MaxJobs /\ createJobAction(c, v, ok)

\* the requests of Spec: every caller, every action, the storage layer up
Next ==
  \/ \E c \in Callers :
       \/ \E v \in JobInputs : Create(c, v, TRUE)
       \/ \E id \in Ids, v \in UpdateInputs : updateJobAction(c, id, v, TRUE)
       \/ \E id \in Ids : deleteJobAction(c, id, TRUE)
       \/ \E id \in Ids : getSingleJobAction(c, id, TRUE)
       \/ \E p \in ListParams : getAllJobsAction(c, p, TRUE)
       \/ getAllJobsForDownloadAction(c, TRUE)
       \/ getStatsAction(c, TRUE)
       \/ getChartsDataAction(c, TRUE)

Spec == Init /\ [][Next]_vars

\* the same requests with the clock running between them
NextClock == Next \/ Tick

SpecClock == Init /\ [][NextClock]_vars

(*********************** validation, input by input ************************)
\* Base with the key k set to v
Vary(k, v) == [Base EXCEPT ![k] = v]

\* Base without the key k
Without(k) == [j \in DOMAIN Base \ {k} |-> Base[j]]

\* values for a required text key: too short, blank, padded, at and over the
\* limit of 200, and a value that is no string
RequiredTextValues ==
  {<<>>, <<"a">>, <<" ", " ">>, <<" ", "a">>, <<" ", "a", "b", " ">>,
   Rep("a", 200), Rep("a", 201), <<" ">> \o Rep("a", 200), Null}

StatusValues == JobStatus \cup {"pending", "declined", "Applied", ""}
ModeValues == JobMode \cup {"internship", "Remote", ""}

OptionalValues(k) ==
  CASE k = "salaryRange" -> {<<>>, <<" ">>, <<"1">>, Rep("1", 101), Null}
    [] k = "notes" -> {<<>>, <<" ", "\t">>, <<"x">>, Null}
    [] k = "resumeId" -> {<<>>, <<" ">>, SomeUuid, Rep("0", 36), Null}
    [] OTHER -> {<<>>, <<" ">>, SomeUrl, <<"x">>, Null}

\* the request bodies of SpecValidation: Base, Base with one key changed or
\* taken away, and the bodies with every optional key empty or filled
ValidationInputs ==
  {Base, Filled, AllOptional(<<>>), AllOptional(Undefined)}
    \cup {Vary(k, v) : k \in RequiredText, v \in RequiredTextValues}
    \cup {Vary("status", v) : v \in StatusValues}
    \cup {Vary("mode", v) : v \in ModeValues}
    \cup {Without(k) : k \in DOMAIN Base}
    \cup UNION {{With(Base, k, v) : v \in OptionalValues(k)} :
                  k \in OptionalFields}

\* a client holds one request body and submits it
InitValidation ==
  /\ store = <<>>
  /\ nextId = 1
  /\ now = 0
  /\ \E v \in ValidationInputs :
       lastOp = [op |-> "none", caller |-> NoUser, args |-> [values |-> v],
                 result |-> ReturnNull, dbCalls |-> 0]

\* the body is submitted as a new job
SubmitCreate(c) ==
  nextId <= MaxJobsV /\ createJobAction(c, lastOp.args.values, TRUE)

\* the body is submitted as an edit of the job id
SubmitUpdate(c, id) == updateJobAction(c, id, lastOp.args.values, TRUE)

NextValidation ==
  \E c \in Owners :
    \/ SubmitCreate(c)
    \/ \E id \in 1..MaxJobsV : SubmitUpdate(c, id)

SpecValidation == InitValidation /\ [][NextValidation]_vars

(************************** create, then read back *************************)
\* request bodies with padded text, blank and empty optional keys, and the
\* bodies of Spec
RoundTripInputs ==
  JobInputs
    \cup {Vary("position", <<" ", "a", "b", " ">>), Vary("company", <<" ", "a">>),
          With(Base, "notes", <<" ", "\t">>), With(Filled, "salaryRange", <<>>),
          Without("mode")}

\* the table hands out MaxJobsV ids
CreateOne(c, v) == nextId <= MaxJobsV /\ createJobAction(c, v, TRUE)

NextRoundTrip ==
  \E c \in Callers :
    \/ \E v \in RoundTripInputs : CreateOne(c, v)
    \/ \E id \in 1..MaxJobsV : getSingleJobAction(c, id, TRUE)
    \/ Tick

SpecRoundTrip == Init /\ [][NextRoundTrip]_vars

(*************************** updates over time *****************************)
\* a body that carries the date columns of the row beside the form's fields
WithDates ==
  [appliedDate |-> 7, lastContact |-> 7, nextFollowUp |-> 8] @@ Filled

NextUpdate ==
  \/ \E c \in Callers :
       \/ Create(c, Base, TRUE)
       \/ \E id \in Ids, v \in {WithDates} :
            updateJobAction(c, id, v, TRUE)
  \/ Tick

SpecUpdate == Init /\ [][NextUpdate]_vars

(******************** a list with requests running beside it ***************)
\* getAllJobsAction up to the end of its first await: findMany has answered
\* the page, count has not been asked yet
ListFindMany(userId, params) ==
  \/ Unauthenticated("list", userId, params)
  \/ /\ userId # NoUser
     /\ \E order \in Orders(MatchingIds(userId, params), TRUE) :
          Done("list.findMany", userId, params,
               [kind |-> "pending",
                jobs |-> ListResult(userId, params, order).jobs], 1)
     /\ UNCHANGED <<store, nextId, now>>

\* the rest of that getAllJobsAction: count is asked of the table as it is
\* now, and the jobs of the first await are returned with it
ListCount ==
  /\ lastOp.op = "list.findMany"
  /\ LET count == Cardinality(MatchingIds(lastOp.caller, lastOp.args))
     IN  Done("list", lastOp.caller, lastOp.args,
              [kind |-> "list", jobs |-> lastOp.result.jobs, count |-> count,
               page |-> PageOf(lastOp.args),
               totalPages |-> CeilDiv(count, LimitOf(lastOp.args))], 2)
  /\ UNCHANGED <<store, nextId, now>>

\* a createJobAction of another request that reaches the table between the
\* two awaits of the list
CreateMeanwhile(userId, values) ==
  /\ lastOp.op = "list.findMany"
  /\ userId # NoUser
  /\ nextId <= MaxJobs
  /\ createAndEditJobSchema(values).ok
  /\ store' = (nextId :> CreatedRow(CreateData(userId, values))) @@ store
  /\ nextId' = nextId + 1
  /\ UNCHANGED <<now, lastOp>>

\* a deleteJobAction of another request between the two awaits of the list
DeleteMeanwhile(userId, id) ==
  /\ lastOp.op = "list.findMany"
  /\ OwnedBy(id, userId)
  /\ store' = [i \in DOMAIN store \ {id} |-> store[i]]
  /\ UNCHANGED <<nextId, now, lastOp>>

NextConcurrent ==
  \/ \E c \in Callers :
       \/ \E v \in {Base, Filled} : Create(c, v, TRUE)
       \/ \E id \in Ids : deleteJobAction(c, id, TRUE)
       \/ \E p \in ListParams : ListFindMany(c, p)
       \/ \E v \in {Base, Filled} : CreateMeanwhile(c, v)
       \/ \E id \in Ids : DeleteMeanwhile(c, id)
  \/ ListCount

SpecConcurrent == Init /\ [][NextConcurrent]_vars

(************************ requests with storage failing ********************)
\* the requests of Spec over fewer inputs, each with the storage layer up or
\* failing
NextFailure ==
  \E c \in Callers, ok \in BOOLEAN :
    \/ Create(c, Base, ok)
    \/ \E id \in Ids : updateJobAction(c, id, Filled, ok)
    \/ \E id \in Ids : deleteJobAction(c, id, ok)
    \/ \E id \in Ids : getSingleJobAction(c, id, ok)
    \/ \E p \in {<<>>, [jobStatus |-> "offer", limit |-> 2]} :
         getAllJobsAction(c, p, ok)
    \/ getAllJobsForDownloadAction(c, ok)
    \/ getStatsAction(c, ok)
    \/ getChartsDataAction(c, ok)

SpecFailure == Init /\ [][NextFailure]_vars

(******************** queries over a table of earlier jobs *****************)
\* the row createJobAction(userId, values) inserted at time t
RowCreatedAt(id, userId, values, t) ==
  CreateData(userId, values)
    @@ [id |-> id, appliedDate |-> t, lastContact |-> NullDate,
        nextFollowUp |-> NullDate, createdAt |-> t, updatedAt |-> t]

\* one earlier create: who, with what, when
Earlier(userId, values, t) == [userId |-> userId, values |-> values, at |-> t]

\* the table a sequence of earlier creates leaves
TableOf(creates) ==
  [i \in DOMAIN creates |->
     RowCreatedAt(i, creates[i].userId, creates[i].values, creates[i].at)]

Offer == Vary("status", "offer")
Interview == [Base EXCEPT !["status"] = "interview",
                          !["position"] = <<"B", "a">>,
                          !["company"] = <<"b", "b">>]

\* A: applied, applied and offer, two of them on the same day; B: one
FewJobs ==
  <<Earlier("A", Base, 0), Earlier("A", Base, 0), Earlier("A", Offer, 1),
    Earlier("B", Interview, 1)>>

\* A's jobs in four calendar months, two in the first half and one in the
\* second half of the last of them
MonthsOfJobs ==
  <<Earlier("A", Base, 0), Earlier("A", Offer, 3), Earlier("B", Base, 4),
    Earlier("A", Base, 4), Earlier("A", Interview, 6), Earlier("A", Base, 6),
    Earlier("A", Base, 7)>>

\* the number of applied jobs of A in the long table
ManyJobs == 25

\* ManyJobs applied jobs of A, one each half month, then one of B and an
\* offer of A
LongTable ==
  [i \in 1..ManyJobs |-> Earlier("A", Base, i)]
    \o <<Earlier("B", Base, 3), Earlier("A", Offer, 4)>>

Tables == {<<>>, FewJobs, MonthsOfJobs, LongTable}

\* the time of the last create of a table
LastAt(creates) ==
  IF creates = <<>> THEN 0
  ELSE CHOOSE t \in {creates[i].at : i \in DOMAIN creates} :
         \A i \in DOMAIN creates : creates[i].at <= t

\* how long after the last create the queries run, in half months: at once,
\* or between five and a half and MaxAge / 2 months later
MaxAge == 14
Ages == {0} \cup 11..MaxAge

\* the pages asked for
MaxPage == 3

\* the filters and pages of the queries
QueryParams ==
  {[jobStatus |-> "applied", page |-> p, limit |-> l] :
     p \in 1..MaxPage, l \in {2, 10}}
  \cup {[page |-> 2], [limit |-> 2], [page |-> 2, limit |-> 2],
        [search |-> <<"B">>], [search |-> <<"B", "b">>],
        [search |-> <<"b", "a">>, jobStatus |-> "interview"],
        [search |-> <<"b", "a">>, jobStatus |-> "offer"],
        [search |-> <<"x">>, jobStatus |-> "all"],
        [jobStatus |-> "Applied"]}
  \cup ListParams

InitQuery ==
  \E creates \in Tables, age \in Ages :
    /\ store = TableOf(creates)
    /\ nextId = Len(creates) + 1
    /\ now = LastAt(creates) + age
    /\ lastOp = [op |-> "none", caller |-> NoUser, args |-> <<>>,
                 result |-> ReturnNull, dbCalls |-> 0]

\* the read requests of every caller, the storage layer up
NextQuery ==
  \E c \in Callers :
    \/ \E p \in QueryParams : getAllJobsAction(c, p, TRUE)
    \/ getAllJobsForDownloadAction(c, TRUE)
    \/ getStatsAction(c, TRUE)
    \/ getChartsDataAction(c, TRUE)

SpecQuery == InitQuery /\ [][NextQuery]_vars

(********************************* claims **********************************)
\* C1: whatever the search, status, page and limit, the jobs getAllJobsAction
\* returns to a caller are all rows whose clerkId is that caller.
C1_ListOnlyOwn ==
  (lastOp.op = "list" /\ lastOp.result.kind = "list") =>
    \A i \in DOMAIN lastOp.result.jobs :
      lastOp.result.jobs[i]["clerkId"] = lastOp.caller

\* A lists and gets a job back while B has a row that passes the same search
\* and status filter.
C1_Witness ==
  /\ lastOp.op = "list"
  /\ lastOp.caller = "A"
  /\ lastOp.result.kind = "list"
  /\ lastOp.result.jobs # <<>>
  /\ \E i \in DOMAIN store :
       /\ store[i]["clerkId"] = "B"
       /\ MatchesAnyOwner(store[i], "A", lastOp.args)

\* C2: getSingleJobAction by a caller for an id the caller does not own ends
\* the same way, with the redirect to /jobs after one query, whether the id
\* belongs to another owner or to nobody.
C2_ForeignLikeMissing ==
  (/\ lastOp.op = "getOne"
   /\ lastOp.caller # NoUser
   /\ ~(/\ lastOp.args.id \in DOMAIN store
        /\ store[lastOp.args.id]["clerkId"] = lastOp.caller)) =>
    /\ lastOp.result = [kind |-> "redirect", to |-> "/jobs"]
    /\ lastOp.dbCalls = 1

\* A asks for a job that exists and belongs to B.
C2_Witness ==
  /\ lastOp.op = "getOne"
  /\ lastOp.caller = "A"
  /\ lastOp.args.id \in DOMAIN store
  /\ store[lastOp.args.id]["clerkId"] = "B"

\* the columns of a job row
RowKeys ==
  SchemaKeys \cup {"id", "clerkId", "appliedDate", "lastContact",
                   "nextFollowUp", "createdAt", "updatedAt"}

\* C3: the row createJobAction stores belongs to the caller, carries the id
\* the table assigned and has the job columns only, whatever clerkId or id
\* the request body carries.
C3_CreateOwnerFromAuth ==
  (lastOp.op = "create" /\ lastOp.result.kind = "job") =>
    LET job == lastOp.result.job IN
      /\ job["clerkId"] = lastOp.caller
      /\ job["id"] = nextId - 1
      /\ DOMAIN job = RowKeys
      /\ job["id"] \in DOMAIN store
      /\ store[job["id"]] = job

\* A creates a job from a body that names B as clerkId and an id of its own.
C3_Witness ==
  /\ lastOp.op = "create"
  /\ lastOp.caller = "A"
  /\ lastOp.result.kind = "job"
  /\ "clerkId" \in DOMAIN lastOp.args.values
  /\ lastOp.args.values["clerkId"] = "B"
  /\ "id" \in DOMAIN lastOp.args.values
  /\ lastOp.args.values["id"] # lastOp.result.job["id"]

\* C4: no step changes the clerkId of a row; ids are handed out once, so a
\* row keeps the clerkId it was created with.
C4_OwnerImmutable ==
  [][/\ nextId' >= nextId
     /\ \A i \in DOMAIN store' : i < nextId'
     /\ \A i \in DOMAIN store \cap DOMAIN store' :
          store'[i]["clerkId"] = store[i]["clerkId"]]_vars

\* A has updated a job of its own with a body that names B as clerkId.
C4_Witness ==
  /\ lastOp.op = "update"
  /\ lastOp.caller = "A"
  /\ lastOp.result.kind = "job"
  /\ "clerkId" \in DOMAIN lastOp.args.values
  /\ lastOp.args.values["clerkId"] = "B"

\* C5: an action called without a caller identity ends in the redirect to /
\* with no Prisma call made and the table as it was.
C5_UnauthenticatedRejected ==
  [][lastOp'.caller = NoUser =>
       /\ store' = store
       /\ nextId' = nextId
       /\ lastOp'.dbCalls = 0
       /\ lastOp'.result = [kind |-> "redirect", to |-> "/"]]_vars

\* a delete without identity was aimed at a job that exists
C5_Witness ==
  /\ lastOp.op = "delete"
  /\ lastOp.caller = NoUser
  /\ lastOp.args.id \in DOMAIN store

\* C6: updateJobAction and deleteJobAction by a caller who owns no row with
\* the given id return null and leave the table as it was.
C6_MissingIsNoOp ==
  [][(/\ lastOp'.op \in {"update", "delete"}
      /\ lastOp'.caller # NoUser
      /\ ~(/\ lastOp'.args.id \in DOMAIN store
           /\ store[lastOp'.args.id]["clerkId"] = lastOp'.caller)) =>
       /\ store' = store
       /\ lastOp'.result = [kind |-> "null"]]_vars

\* A has sent a valid update for a job that exists and belongs to B.
C6_Witness ==
  /\ lastOp.op = "update"
  /\ lastOp.caller = "A"
  /\ createAndEditJobSchema(lastOp.args.values).ok
  /\ lastOp.args.id \in DOMAIN store
  /\ store[lastOp.args.id]["clerkId"] = "B"

\* what an owner can read: its rows, and every result list, getOne, stats and
\* charts can give it
View(b) ==
  [rows |-> {store[i] : i \in IdsOf(b)},
   list |-> [p \in ListParams |->
               {ListResult(b, p, o) : o \in Orders(MatchingIds(b, p), TRUE)}],
   one |-> [id \in Ids |-> GetOneResult(b, id)],
   stats |-> StatsOf(b),
   charts |-> {ChartsResult(o) : o \in Orders(RecentIdsOf(b), FALSE)}]

\* C7: an action called by one owner leaves the rows of every other owner,
\* and with them what list, getOne, stats and charts answer to that owner,
\* as they were.
\* (View reads store and now only, so a step that keeps both keeps it.)
C7_OwnersIndependent ==
  [][\A b \in Owners :
       (lastOp'.caller # b /\ now' = now) =>
         (store' = store \/ View(b)' = View(b))]_vars

\* A has deleted a job of its own while B has a job.
C7_Witness ==
  /\ lastOp.op = "delete"
  /\ lastOp.caller = "A"
  /\ lastOp.result.kind = "job"
  /\ IdsOf("B") # {}

\* the request body of the last create or update
Submitted == lastOp.args.values

\* the last action was a create or an update that stored a row
Stored == lastOp.op \in {"create", "update"} /\ lastOp.result.kind = "job"

\* C8: a create or update whose body has an optional key empty or missing
\* stores null under that key, and no row of the table holds an empty string
\* under an optional key.
C8_EmptyOptionalIsNull ==
  /\ Stored =>
       \A f \in OptionalFields :
         (f \notin DOMAIN Submitted \/ Submitted[f] = <<>>
            \/ Submitted[f] = <<"undefined">>) =>
           /\ lastOp.result.job[f] = <<"null">>
           /\ store[lastOp.result.job["id"]][f] = <<"null">>
  /\ \A i \in DOMAIN store : \A f \in OptionalFields : store[i][f] # <<>>

\* a body whose six optional keys are all the empty string was stored
C8_Witness ==
  /\ Stored
  /\ \A f \in OptionalFields : f \in DOMAIN Submitted /\ Submitted[f] = <<>>

\* C9: a body that differs from a valid one in its status only, or in its
\* mode only, is stored exactly when that status is one of applied,
\* screening, interview, offer, rejected, or that mode one of full-time,
\* part-time, contract, remote, hybrid; and every row of the table has its
\* status and its mode among these.
C9_StatusAndModeEnumerated ==
  LET statuses == {"applied", "screening", "interview", "offer", "rejected"}
      modes == {"full-time", "part-time", "contract", "remote", "hybrid"}
  IN  /\ (lastOp.op = "create" /\ "status" \in DOMAIN Submitted
            /\ Submitted = [Base EXCEPT !.status = Submitted["status"]]) =>
           (lastOp.result.kind = "job" <=> Submitted["status"] \in statuses)
      /\ (lastOp.op = "create" /\ "mode" \in DOMAIN Submitted
            /\ Submitted = [Base EXCEPT !.mode = Submitted["mode"]]) =>
           (lastOp.result.kind = "job" <=> Submitted["mode"] \in modes)
      /\ Stored => Submitted["status"] \in statuses /\ Submitted["mode"] \in modes
      /\ \A i \in DOMAIN store :
           store[i]["status"] \in statuses /\ store[i]["mode"] \in modes

\* a body with the status rejected was stored by create
C9_Witness ==
  /\ lastOp.op = "create"
  /\ lastOp.result.kind = "job"
  /\ Submitted["status"] = "rejected"

\* C10: position, company and location of every row of the table have no
\* white space at either end and a length of at least 2 and at most 200.
C10_RequiredTextTrimmedInRange ==
  \A i \in DOMAIN store :
    \A k \in {"position", "company", "location"} :
      LET v == store[i][k] IN
        /\ Len(v) >= 2
        /\ Len(v) <= 200
        /\ v[1] \notin {" ", "\t"}
        /\ v[Len(v)] \notin {" ", "\t"}
(************************** the storage client *****************************)
\* globalForPrisma.prisma is undefined; clients are numbered from 1 in the
\* order they are constructed
NoClient == 0

\* the modes NODE_ENV names, and NODE_ENV not set
NodeEnvs == {"development", "production", "test", ""}

\* how often one process evaluates the db module
MaxLoads == 30

\* a module that never stores its client on the global object
GlobalKept(env, global, prisma) == global

\* if (process.env.NODE_ENV !== 'production') globalForPrisma.prisma = prisma
GlobalAfter(env, global, prisma) ==
  IF env # "production" THEN prisma ELSE global

\* what the process holds after one more evaluation of the db module:
\* prisma = globalForPrisma.prisma ?? prismaClientSingleton(), exported, and
\* the global object after the last statement
Evaluated(env, held) ==
  LET reuse == held.global # NoClient
      prisma == IF reuse THEN held.global ELSE held.constructed + 1
  IN  [kind |-> "module",
       prisma |-> prisma,
       constructed |-> IF reuse THEN held.constructed ELSE held.constructed + 1,
       global |-> GlobalAfter(env, held.global, prisma),
       loads |-> held.loads + 1]

\* a process starts in some mode with nothing constructed
InitDb ==
  /\ store = <<>>
  /\ nextId = 1
  /\ now = 0
  /\ \E env \in NodeEnvs :
       lastOp = [op |-> "start", caller |-> NoUser,
                 args |-> [NODE_ENV |-> env],
                 result |-> [kind |-> "module", prisma |-> NoClient,
                             constructed |-> 0, global |-> NoClient,
                             loads |-> 0],
                 dbCalls |-> 0]

\* the db module is evaluated: on first import and again on a hot reload
EvaluateDb ==
  /\ lastOp.result.loads < MaxLoads
  /\ lastOp' = [lastOp EXCEPT
                  !.op = "db",
                  !.result = Evaluated(lastOp.args.NODE_ENV, lastOp.result)]
  /\ UNCHANGED <<store, nextId, now>>

SpecDb == InitDb /\ [][EvaluateDb]_vars

(******************************* exports ***********************************)
\* a job the seed script created at time t with an applied date of its own
Seeded(userId, values, applied, t) ==
  [userId |-> userId, values |-> values, at |-> t, applied |-> applied]

\* the row a create of the application or of the seed script left
RowOf(id, create) ==
  IF "applied" \in DOMAIN create
  THEN [RowCreatedAt(id, create.userId, create.values, create.at)
          EXCEPT !["appliedDate"] = create.applied]
  ELSE RowCreatedAt(id, create.userId, create.values, create.at)

\* creates in two halves of one month, in the next month and in the same
\* month a year later; one seeded with an applied date after all of them
ExportCreates ==
  {Earlier("A", Base, 0), Earlier("A", Offer, 1), Earlier("A", Interview, 2),
   Earlier("B", Base, 2), Earlier("A", Vary("status", "rejected"), 24),
   Seeded("A", Vary("status", "screening"), 30, 1)}

\* the number of jobs in a table to export
MaxExport == 3

\* the tables ExportCreates can leave: up to MaxExport creates in time order
ExportTables ==
  {creates \in UNION {[1..n -> ExportCreates] : n \in 0..MaxExport} :
     \A i, j \in DOMAIN creates : i < j => creates[i].at <= creates[j].at}

InitExport ==
  \E creates \in ExportTables :
    /\ store = [i \in DOMAIN creates |-> RowOf(i, creates[i])]
    /\ nextId = Len(creates) + 1
    /\ now = LastAt(creates)
    /\ lastOp = [op |-> "none", caller |-> NoUser, args |-> <<>>,
                 result |-> ReturnNull, dbCalls |-> 0]

\* the two downloads of every caller, the storage layer up or failing
NextExport ==
  \E c \in Callers, ok \in BOOLEAN :
    \/ handleDownloadCSV(c, ok)
    \/ handleDownloadExcel(c, ok)

SpecExport == InitExport /\ [][NextExport]_vars

(* the filter of a list request as a predicate on a record: the search is
   absent or empty or a case-insensitive substring of the position or of the
   company, and the status is absent, empty or "all" or the record's status *)
Accepts(row, filter) ==
  /\ \/ "search" \notin DOMAIN filter
     \/ filter["search"] = <<>>
     \/ ContainsInsensitive(row["position"], filter["search"])
     \/ ContainsInsensitive(row["company"], filter["search"])
  /\ \/ "jobStatus" \notin DOMAIN filter
     \/ filter["jobStatus"] \in {"", "all"}
     \/ row["status"] = filter["jobStatus"]

\* the caller's records the filter of the last list request accepts
Accepted ==
  {i \in DOMAIN store :
     store[i]["clerkId"] = lastOp.caller /\ Accepts(store[i], lastOp.args)}

\* the limit and the page of the last list request
AskedLimit ==
  IF "limit" \in DOMAIN lastOp.args THEN lastOp.args["limit"] ELSE 10
AskedPage ==
  IF "page" \in DOMAIN lastOp.args THEN lastOp.args["page"] ELSE 1

Listed == lastOp.op = "list" /\ lastOp.caller # NoUser

(* C11: a list answers count = the number of the caller's records matching
   the filter, whatever the page and the limit, and totalPages = the ceiling
   of count / limit: the least number of pages of limit records that hold
   count records *)
C11_CountAndTotalPages ==
  Listed =>
    LET n == Cardinality(Accepted)
        r == lastOp.result
    IN  /\ r.count = n
        /\ r.totalPages * AskedLimit >= n
        /\ (r.totalPages - 1) * AskedLimit < n

\* 25 matching records listed with limit 10: 10 jobs on page 1, 3 pages
C11_Witness ==
  /\ Listed
  /\ AskedPage = 1 /\ AskedLimit = 10
  /\ Cardinality(Accepted) = 25
  /\ Cardinality(Accepted) < Len(store)
  /\ lastOp.result.count = 25
  /\ Len(lastOp.result.jobs) = 10
  /\ lastOp.result.totalPages = 3

(* C12: a list answers the matching records in descending applied date, cut
   to the page: at most limit jobs, no job applied later than the job before
   it, and the k-th job of page p has the rank (p - 1) * limit + k among the
   matching records by applied date *)
C12_OrderedPage ==
  Listed =>
    LET jobs == lastOp.result.jobs
        skip == (AskedPage - 1) * AskedLimit
        left == Cardinality(Accepted) - skip
        at(i) == store[i]["appliedDate"]
    IN  /\ Len(jobs) <= AskedLimit
        /\ Len(jobs) = IF left < 0 THEN 0 ELSE Min(AskedLimit, left)
        /\ \A k \in 1..(Len(jobs) - 1) :
             jobs[k]["appliedDate"] >= jobs[k + 1]["appliedDate"]
        /\ \A k \in DOMAIN jobs :
             /\ jobs[k]["id"] \in Accepted
             /\ store[jobs[k]["id"]] = jobs[k]
             /\ Cardinality({i \in Accepted : at(i) > jobs[k]["appliedDate"]})
                  <= skip + k - 1
             /\ Cardinality({i \in Accepted : at(i) >= jobs[k]["appliedDate"]})
                  >= skip + k
        /\ \A k, m \in DOMAIN jobs : k # m => jobs[k]["id"] # jobs[m]["id"]

\* the second page of ten out of more than twenty records of falling dates
C12_Witness ==
  /\ Listed
  /\ AskedPage = 2 /\ AskedLimit = 10
  /\ Cardinality(Accepted) > 20
  /\ Len(lastOp.result.jobs) = 10
  /\ lastOp.result.jobs[1]["appliedDate"] > lastOp.result.jobs[10]["appliedDate"]

(* C13: a record of the caller matches a filter exactly when the filter
   accepts it: the list counts the accepted records, lists accepted records
   only and, when one page holds them all, lists every one of them *)
C13_FilterSemantics ==
  Listed =>
    LET jobs == lastOp.result.jobs
    IN  /\ lastOp.result.count = Cardinality(Accepted)
        /\ \A k \in DOMAIN jobs :
             /\ jobs[k]["clerkId"] = lastOp.caller
             /\ Accepts(jobs[k], lastOp.args)
        /\ (AskedPage = 1 /\ Cardinality(Accepted) <= AskedLimit) =>
             {jobs[k]["id"] : k \in DOMAIN jobs} = Accepted

\* a search in another case that one company contains and no position does:
\* the one record of that company is listed, the caller's others are not
C13_Witness ==
  /\ Listed
  /\ lastOp.args = [search |-> <<"B", "b">>]
  /\ lastOp.result.count = 1
  /\ lastOp.result.jobs[1]["company"] = <<"b", "b">>
  /\ Cardinality(IdsOf(lastOp.caller)) > 1

(* C14: the statistics hold all five statuses, each with the number of the
   caller's records in that status, 0 where there is none *)
C14_StatsAllFive ==
  (lastOp.op = "stats" /\ lastOp.caller # NoUser) =>
    /\ lastOp.result.kind = "stats"
    /\ {"applied", "screening", "interview", "offer", "rejected"}
         \subseteq DOMAIN lastOp.result.stats
    /\ \A st \in {"applied", "screening", "interview", "offer", "rejected"} :
         lastOp.result.stats[st] =
           Cardinality({i \in DOMAIN store :
                          /\ store[i]["clerkId"] = lastOp.caller
                          /\ store[i]["status"] = st})

\* records applied, applied and offer give applied 2, offer 1 and 0 thrice
C14_Witness ==
  /\ lastOp.op = "stats"
  /\ lastOp.result.kind = "stats"
  /\ {store[i]["status"] : i \in IdsOf(lastOp.caller)} = {"applied", "offer"}
  /\ Cardinality(IdsOf(lastOp.caller)) = 3
  /\ Cardinality(IdsOf(lastOp.caller)) < Len(store)
  /\ lastOp.result.stats =
       [applied |-> 2, screening |-> 0, interview |-> 0, offer |-> 1,
        rejected |-> 0]

\* the sum of the counts of a trend
RECURSIVE Total(_)
Total(points) ==
  IF points = <<>> THEN 0 ELSE Head(points).count + Total(Tail(points))

\* the caller's records applied to at or after six months (12 half months)
\* before now
InWindow ==
  {i \in DOMAIN store :
     /\ store[i]["clerkId"] = lastOp.caller
     /\ store[i]["appliedDate"] >= now - 12}

Charted ==
  lastOp.op = "charts" /\ lastOp.caller # NoUser /\ lastOp.result.kind = "charts"

(* C15: the trend counts a record of the caller exactly when its applied
   date is at or after the cutoff six months before now: the counts add up to
   the number of those records *)
C15_ChartsWindow ==
  Charted => Total(lastOp.result.points) = Cardinality(InWindow)

\* a record applied to exactly at the cutoff is counted, one of seven months
\* ago is not
C15_Witness ==
  /\ Charted
  /\ \E i, j \in IdsOf(lastOp.caller) :
       /\ store[i]["appliedDate"] = now - 12
       /\ store[j]["appliedDate"] = now - 14
  /\ Total(lastOp.result.points) = Cardinality(InWindow)
  /\ Cardinality(InWindow) < Cardinality(IdsOf(lastOp.caller))

(* C16: the trend has one point for every calendar month with a record in the
   window and no other point, no two points with the same label, every count
   the number of the window's records of that month (so never 0), and the
   points in ascending order of time *)
C16_TrendPoints ==
  Charted =>
    LET points == lastOp.result.points
        of(k) == {i \in InWindow :
                    MonthLabel(store[i]["appliedDate"]) = points[k].date}
    IN  /\ \A k \in DOMAIN points :
             points[k].count >= 1 /\ points[k].count = Cardinality(of(k))
        /\ \A k, m \in DOMAIN points :
             k # m => points[k].date # points[m].date
        /\ \A i \in InWindow : \E k \in DOMAIN points : i \in of(k)
        /\ \A k, m \in DOMAIN points :
             k < m => \A i \in of(k), j \in of(m) :
                        store[i]["appliedDate"] < store[j]["appliedDate"]

\* a trend over a turn of the year with a month of one record and a month of
\* two records of different days
C16_Witness ==
  /\ Charted
  /\ Len(lastOp.result.points) >= 3
  /\ \E k \in DOMAIN lastOp.result.points : lastOp.result.points[k].count = 1
  /\ \E k \in DOMAIN lastOp.result.points :
       /\ lastOp.result.points[k].count = 2
       /\ \E i, j \in InWindow :
            /\ store[i]["appliedDate"] # store[j]["appliedDate"]
            /\ MonthLabel(store[i]["appliedDate"]) = lastOp.result.points[k].date
            /\ MonthLabel(store[j]["appliedDate"]) = lastOp.result.points[k].date
  /\ \E k, m \in DOMAIN lastOp.result.points :
       lastOp.result.points[k].date.year # lastOp.result.points[m].date.year

\* the caller, the arguments and the result of the request a step ends
Asked(op) == lastOp'.op = op /\ lastOp'.caller # NoUser

(* C17: when the storage layer fails, create, update and delete answer null
   and leave the table as it was, a list answers no jobs, count 0 and
   totalPages 0, and the download answers no jobs; none of them throws *)
C17_StorageFailureDegrades ==
  [][LET c == lastOp'.caller
         a == lastOp'.args
         r == lastOp'.result
     IN  /\ (Asked("create") /\ createJobAction(c, a.values, FALSE)) =>
              (r = [kind |-> "null"] /\ store' = store)
         /\ (Asked("update") /\ updateJobAction(c, a.id, a.values, FALSE)) =>
              (r = [kind |-> "null"] /\ store' = store)
         /\ (Asked("delete") /\ deleteJobAction(c, a.id, FALSE)) =>
              (r = [kind |-> "null"] /\ store' = store)
         /\ (Asked("list") /\ getAllJobsAction(c, a, FALSE)) =>
              /\ r.kind = "list"
              /\ r.jobs = <<>> /\ r.count = 0 /\ r.totalPages = 0
              /\ JobsGET(r).status = 200
         /\ (Asked("download") /\ getAllJobsForDownloadAction(c, FALSE)) =>
              (r.kind = "jobs" /\ r.jobs = <<>>)]_vars

\* a caller with records is answered an empty list with count 0
C17_Witness ==
  /\ lastOp.op = "list"
  /\ lastOp.args = <<>>
  /\ IdsOf(lastOp.caller) # {}
  /\ lastOp.result.kind = "list"
  /\ lastOp.result.jobs = <<>>
  /\ lastOp.result.count = 0
  /\ lastOp.result.totalPages = 0

(* C18: when the storage layer fails, the statistics answer all five statuses
   with 0 and the trend answers no points; neither throws, so GET /stats and
   GET /charts answer 200 with the zeroed map and the empty trend *)
C18_AggregatesDegrade ==
  [][LET c == lastOp'.caller
         r == lastOp'.result
     IN  /\ (Asked("stats") /\ getStatsAction(c, FALSE)) =>
              /\ r = [kind |-> "stats",
                      stats |-> [applied |-> 0, screening |-> 0,
                                 interview |-> 0, offer |-> 0, rejected |-> 0]]
              /\ StatsGET(r) = [status |-> 200, body |-> r.stats]
         /\ (Asked("charts") /\ getChartsDataAction(c, FALSE)) =>
              /\ r = [kind |-> "charts", points |-> <<>>]
              /\ ChartsGET(r) = [status |-> 200, body |-> <<>>]]_vars

\* what the route answers to the last request
Answer == Response(lastOp.op, lastOp.result)

(* C19: a create or an update whose input breaks a validation rule is answered
   400 with an error that names every offending field, and the answer is not
   the answer to a storage failure; the table has no record of the input *)
C19_ValidationErrorNamesField ==
  (/\ lastOp.op \in {"create", "update"}
   /\ lastOp.caller # NoUser
   /\ ~createAndEditJobSchema(Submitted).ok) =>
    /\ Answer.status = 400
    /\ store = <<>>
    /\ Answer # Response(lastOp.op, [kind |-> "null"])
    /\ "issues" \in DOMAIN Answer.body
    /\ Answer.body["issues"] = createAndEditJobSchema(Submitted).issues

(* C20: GET /jobs/{id} answers 200 with the record when the caller owns a
   record of that id and 404 when there is no such record of the caller *)
C20_GetOneFoundOrNotFound ==
  (lastOp.op = "getOne" /\ lastOp.caller # NoUser) =>
    IF /\ lastOp.args.id \in DOMAIN store
       /\ store[lastOp.args.id]["clerkId"] = lastOp.caller
    THEN Answer = [status |-> 200, body |-> store[lastOp.args.id]]
    ELSE Answer.status = 404

\* the value a valid input leaves in field k once validated and sanitized:
\* text trimmed, an optional key that is absent or empty as null
Sanitized(values, k) ==
  CASE k \in {"position", "company", "location"} -> Trim(values[k])
    [] k \in {"status", "mode"} -> values[k]
    [] k \in {"salaryRange", "notes"} ->
         IF k \notin DOMAIN values \/ Trim(values[k]) = <<>>
         THEN <<"null">> ELSE Trim(values[k])
    [] OTHER ->
         IF k \notin DOMAIN values \/ values[k] = <<>>
         THEN <<"null">> ELSE values[k]

(* C21: a create of a valid input followed at once by getSingleJobAction of
   the created id by the same caller returns the created record: its input
   fields are the validated and sanitized input, its owner is the caller, and
   its id and timestamps are the ones the create assigned *)
C21_CreateThenGetOne ==
  [][(/\ lastOp.op = "create" /\ lastOp.result.kind = "job"
      /\ lastOp'.op = "getOne"
      /\ lastOp'.caller = lastOp.caller
      /\ lastOp'.args.id = lastOp.result.job["id"]) =>
       /\ lastOp'.result.kind = "job"
       /\ lastOp'.result.job = lastOp.result.job
       /\ \A k \in {"position", "company", "location", "status", "mode",
                    "salaryRange", "jobUrl", "website", "coverLetterUrl",
                    "resumeId", "notes"} :
            lastOp'.result.job[k] = Sanitized(lastOp.args.values, k)
       /\ lastOp'.result.job["clerkId"] = lastOp.caller
       /\ lastOp'.result.job["createdAt"] <= now
       /\ lastOp'.result.job["updatedAt"] = lastOp'.result.job["createdAt"]
       /\ lastOp'.result.job["appliedDate"] = lastOp'.result.job["createdAt"]]_vars

\* a record read back with trimmed text, a filled optional field and an
\* emptied one
C21_Witness ==
  /\ lastOp.op = "getOne"
  /\ lastOp.result.kind = "job"
  /\ lastOp.result.job["clerkId"] = lastOp.caller
  /\ lastOp.result.job["id"] = lastOp.args.id
  /\ lastOp.result.job["notes"] = <<"x">>
  /\ lastOp.result.job["salaryRange"] = <<"null">>
  /\ lastOp.result.job["jobUrl"] = SomeUrl
  /\ lastOp.result.job["createdAt"] > 0

(* C22: the jobs and the count of one list answer come from one state of the
   table, also with a create or a delete of the same owner running beside the
   list: the page holds as many jobs as a table of count matching records
   gives it, and totalPages fits count *)
C22_ListFromOneState ==
  Listed =>
    LET r == lastOp.result
        left == r.count - (AskedPage - 1) * AskedLimit
    IN  /\ Len(r.jobs) = IF left < 0 THEN 0 ELSE Min(AskedLimit, left)
        /\ r.totalPages * AskedLimit >= r.count
        /\ (r.totalPages - 1) * AskedLimit < r.count

\* the step is an update of a record of the caller that the storage ran
Updated ==
  /\ Asked("update")
  /\ updateJobAction(lastOp'.caller, lastOp'.args.id, lastOp'.args.values, TRUE)
  /\ lastOp'.result.kind = "job"

(* C23 as claimed: an update of a record of the caller leaves every mutable
   field of the record with the value the update gives, the applied date, the
   last-contact date and the next-follow-up date among them, and changes no
   other record *)
C23_UpdateReplacesAllMutable ==
  [][Updated =>
       LET id == lastOp'.args.id
           v == lastOp'.args.values
       IN  /\ \A k \in {"position", "company", "location", "status", "mode",
                        "salaryRange", "jobUrl", "website", "coverLetterUrl",
                        "resumeId", "notes"} :
                store'[id][k] = Sanitized(v, k)
           /\ \A k \in {"appliedDate", "lastContact", "nextFollowUp"} :
                k \in DOMAIN v => store'[id][k] = v[k]
           /\ DOMAIN store' = DOMAIN store
           /\ \A i \in DOMAIN store : i # id => store'[i] = store[i]]_vars

(* C23: an update of a record of the caller replaces the eleven fields of the
   input (position, company, location, status, mode, salaryRange, jobUrl,
   website, coverLetterUrl, resumeId, notes) with the sanitized input and
   sets updatedAt; the id, the owner, the applied date, the last-contact
   date, the next-follow-up date and the creation time keep their values
   whatever the body carries, and no other record changes *)
C23_UpdateReplacesInputFields ==
  [][Updated =>
       LET id == lastOp'.args.id
           v == lastOp'.args.values
       IN  /\ \A k \in {"position", "company", "location", "status", "mode",
                        "salaryRange", "jobUrl", "website", "coverLetterUrl",
                        "resumeId", "notes"} :
                store'[id][k] = Sanitized(v, k)
           /\ store'[id]["updatedAt"] = now
           /\ \A k \in {"id", "clerkId", "appliedDate", "lastContact",
                        "nextFollowUp", "createdAt"} :
                store'[id][k] = store[id][k]
           /\ lastOp'.result.job = store'[id]
           /\ DOMAIN store' = DOMAIN store
           /\ \A i \in DOMAIN store : i # id => store'[i] = store[i]]_vars

\* a later update whose body carries dates: the form's fields are the body's,
\* the dates are not, and another record exists
C23_Witness ==
  /\ lastOp.op = "update"
  /\ lastOp.result.kind = "job"
  /\ "appliedDate" \in DOMAIN lastOp.args.values
  /\ store[lastOp.args.id]["appliedDate"] # lastOp.args.values["appliedDate"]
  /\ store[lastOp.args.id]["lastContact"] = -1
  /\ store[lastOp.args.id]["position"] = lastOp.args.values["position"]
  /\ store[lastOp.args.id]["notes"] = <<"x">>
  /\ store[lastOp.args.id]["updatedAt"] > store[lastOp.args.id]["createdAt"]
  /\ Cardinality(DOMAIN store) > 1

\* the last request was an export that wrote a file
Exported ==
  lastOp.op \in {"exportCSV", "exportExcel"} /\ lastOp.caller # NoUser

\* the rows of the file below the header, and the data rows among them
Body == lastOp.result.rows
DataAt == {i \in DOMAIN Body : Body[i] # <<>>}

\* the year and month a data row shows
ShownMonth(row) == <<row.date.year, row.date.month>>

(* C24: in both exports a blank row stands between two data rows exactly when
   their months differ: no blank row first, last or next to another, none
   between two rows of one month, one between two rows of different months,
   so k months of records give k - 1 blank rows *)
C24_GapsBetweenMonths ==
  Exported =>
    /\ \A i \in DOMAIN Body \ DataAt :
         /\ i - 1 \in DataAt /\ i + 1 \in DataAt
         /\ ShownMonth(Body[i - 1]) # ShownMonth(Body[i + 1])
    /\ \A i \in DataAt :
         i + 1 \in DataAt => ShownMonth(Body[i]) = ShownMonth(Body[i + 1])
    /\ DataAt # {} =>
         Cardinality(DOMAIN Body \ DataAt) =
           Cardinality({MonthKey(lastOp.result.jobs[k]["createdAt"]) :
                          k \in DOMAIN lastOp.result.jobs}) - 1

\* three records in three months, two of them the same month of different
\* years: two blank rows
C24_Witness ==
  /\ Exported
  /\ Cardinality(DataAt) = 3
  /\ Cardinality(DOMAIN Body \ DataAt) = 2
  /\ \E i, j \in DataAt :
       Body[i].date.month = Body[j].date.month
         /\ Body[i].date.year # Body[j].date.year

(* C25: in both exports the No. column of the data rows is 1, 2, ..., n from
   the top for the n exported records; a blank row takes no number *)
C25_SerialNumbers ==
  Exported =>
    /\ Cardinality(DataAt) = Len(lastOp.result.jobs)
    /\ \A i \in DataAt :
         Body[i].no = Cardinality({j \in DataAt : j <= i})

\* a third data row numbered 3 below a blank row
C25_Witness ==
  /\ Exported
  /\ \E i \in DataAt :
       /\ Body[i].no = 3
       /\ i - 1 \notin DataAt
       /\ i > 3

\* the data rows of the file from the top
RECURSIVE DataRows(_)
DataRows(rows) ==
  IF rows = <<>> THEN <<>>
  ELSE IF Head(rows) = <<>> THEN DataRows(Tail(rows))
  ELSE <<Head(rows)>> \o DataRows(Tail(rows))

(* C26: both exports list the caller's records from the latest creation time
   to the earliest whatever order they came in, show the creation time as the
   date and group the months by it, and leave the array they were given in
   the order it came: by applied date, latest first *)
C26_SortedByCreation ==
  Exported =>
    LET data == DataRows(Body)
        jobs == lastOp.result.jobs
        mine == IdsOf(lastOp.caller)
    IN  /\ \E f \in [DOMAIN data -> mine] :
             /\ \A k, m \in DOMAIN data : k # m => f[k] # f[m]
             /\ \A k \in DOMAIN data :
                  /\ data[k].date.year = store[f[k]]["createdAt"] \div 24
                  /\ data[k].date.month = (store[f[k]]["createdAt"] \div 2) % 12
                  /\ data[k].date.day = store[f[k]]["createdAt"] % 2
                  /\ data[k].status = Capitalized(store[f[k]]["status"])
             /\ \A k, m \in DOMAIN data :
                  k < m => store[f[k]]["createdAt"] >= store[f[m]]["createdAt"]
        /\ Len(data) = Len(jobs)
        /\ \A k \in 1..(Len(jobs) - 1) :
             jobs[k]["appliedDate"] >= jobs[k + 1]["appliedDate"]

\* an export whose first record by applied date is its last by creation: the
\* file ends with it and shows the creation time, not the applied date
C26_Witness ==
  /\ Exported
  /\ Len(lastOp.result.jobs) = 3
  /\ lastOp.result.jobs[1]["appliedDate"] > lastOp.result.jobs[2]["appliedDate"]
  /\ lastOp.result.jobs[1]["createdAt"] < lastOp.result.jobs[3]["createdAt"]
  /\ DataRows(Body)[3].date = DateShown(lastOp.result.jobs[1]["createdAt"])
  /\ DataRows(Body)[3].date # DateShown(lastOp.result.jobs[1]["appliedDate"])
  /\ DataRows(Body)[1].date = DateShown(lastOp.result.jobs[2]["createdAt"])

(* C27: the summary row of both exports carries, for each of the five
   statuses, the number of exported records in that status, and the five
   numbers add up to the number of exported records *)
C27_SummaryOfFiveStatuses ==
  Exported =>
    LET heading == lastOp.result.heading
        jobs == lastOp.result.jobs
    IN  /\ {"Applied", "Screening", "Interview", "Offer", "Rejected"}
             \subseteq DOMAIN heading
        /\ heading["Applied"] = CountStatus(jobs, "applied")
        /\ heading["Screening"] = CountStatus(jobs, "screening")
        /\ heading["Interview"] = CountStatus(jobs, "interview")
        /\ heading["Offer"] = CountStatus(jobs, "offer")
        /\ heading["Rejected"] = CountStatus(jobs, "rejected")
        /\ heading["Applied"] + heading["Screening"] + heading["Interview"]
             + heading["Offer"] + heading["Rejected"] = Len(jobs)

(* C28 as claimed: over the evaluations of the db module in one process at
   most one PrismaClient is constructed and every evaluation exports it, in
   every mode *)
C28_OneClientInEveryMode ==
  lastOp.op = "db" =>
    lastOp.result.constructed = 1 /\ lastOp.result.prisma = 1

(* C28: when NODE_ENV is not "production", at most one PrismaClient is
   constructed over the evaluations of the db module in one process and every
   evaluation exports it; in production the client is not kept on the global
   object, and every evaluation constructs and exports a client of its own *)
C28_OneClientOutsideProduction ==
  lastOp.op = "db" =>
    IF lastOp.args.NODE_ENV # "production"
    THEN lastOp.result.constructed = 1 /\ lastOp.result.prisma = 1
    ELSE /\ lastOp.result.constructed = lastOp.result.loads
         /\ lastOp.result.prisma = lastOp.result.loads
         /\ lastOp.result.global = 0

\* the third evaluation in development exports the first client
C28_Witness ==
  /\ lastOp.op = "db"
  /\ lastOp.args.NODE_ENV = "development"
  /\ lastOp.result.loads = 3
  /\ lastOp.result.constructed = 1
  /\ lastOp.result.prisma = 1

\* the filter of a list request without its page and limit
FilterOf(args) == [k \in DOMAIN args \ {"page", "limit"} |-> args[k]]

(* C29: over an unchanged table, two different pages of one filter and limit
   of one caller share no record, also among records of one applied date *)
C29_PagesDisjoint ==
  [][(/\ Listed /\ Listed'
      /\ store' = store
      /\ lastOp'.caller = lastOp.caller
      /\ FilterOf(lastOp'.args) = FilterOf(lastOp.args)
      /\ AskedLimit' = AskedLimit
      /\ AskedPage' # AskedPage) =>
       \A k \in DOMAIN lastOp.result.jobs, m \in DOMAIN lastOp'.result.jobs :
         lastOp.result.jobs[k]["id"] # lastOp'.result.jobs[m]["id"]]_vars

(* C30: the statistics of a caller have exactly the five status keys and
   their counts add up to the number of the caller's records, which is the
   count a list of the caller without search and status answers *)
C30_StatsSumIsListCount ==
  LET total == Cardinality({i \in DOMAIN store :
                              store[i]["clerkId"] = lastOp.caller})
  IN  /\ (lastOp.op = "stats" /\ lastOp.caller # NoUser) =>
           /\ DOMAIN lastOp.result.stats =
                {"applied", "screening", "interview", "offer", "rejected"}
           /\ lastOp.result.stats["applied"] + lastOp.result.stats["screening"]
                + lastOp.result.stats["interview"] + lastOp.result.stats["offer"]
                + lastOp.result.stats["rejected"] = total
      /\ (Listed /\ FilterOf(lastOp.args) = <<>>) =>
           lastOp.result.count = total

\* statistics of a caller with records in two statuses
C30_Witness ==
  /\ lastOp.op = "stats"
  /\ lastOp.caller # NoUser
  /\ lastOp.result.stats["applied"] = 1
  /\ lastOp.result.stats["offer"] = 1
  /\ Cardinality(IdsOf(lastOp.caller)) = 2

====
